---- MODULE Spec2Model ----
(***************************************************************************)
(* FxRunner (src/core/modules/FxRunner/index.js): the supervisor of the    *)
(* FXServer child process.  spawnServer, killServer and restartServer are  *)
(* async functions; each invocation is a call slot that runs from one      *)
(* await point to the next in one atomic step (the JavaScript event loop   *)
(* runs one continuation at a time).  OS exit/close events and the passing *)
(* of time interleave with these steps.                                    *)
(***************************************************************************)
EXTENDS Integers, Sequences, FiniteSets, TLC

(* ---- bounds of the model ---- *)
MaxCalls == 2          \* invocations of spawnServer/killServer/restartServer
MaxTicks == 3          \* how many times the clock advances
TickMs == 250          \* milliseconds added by one clock step
StartTime == 100500    \* Date.now() when the supervisor is constructed

(* ---- configuration read from txConfig ---- *)
ShutdownDelays == {0, 250, 500}   \* txConfig.server.shutdownNoticeDelayMs, within 0..30000
restartSpawnDelayMs == 500        \* txConfig.server.restartSpawnDelayMs
OverrideValues == {250}           \* values an outside caller stores in restartSpawnDelayOverride
MinKillWaitMs == 250              \* the floor of the shutdown-notice sleep
ErrorTexts == {"E1", "E2"}        \* texts the config validator may report

Calls == 1..MaxCalls

VARIABLES
    clock,                     \* Date.now(), in ms
    shutdownNoticeDelayMs,     \* txConfig.server.shutdownNoticeDelayMs
    dataPath, cfgPath,         \* whether txConfig.server.dataPath / cfgPath are set
    fxChild,                   \* this.fxChild: 0 is null, else an index into procs
    procs,                     \* every ChildProcess object spawn() has returned
    history,                   \* this.history
    lastKillRequest,           \* this.lastKillRequest
    restartSpawnDelayOverride, \* this.restartSpawnDelayOverride
    currentMutex,              \* this.currentMutex: 0 is null
    mutexGen,                  \* tokens genMutex() has handed out
    calls,                     \* the invocations and where each one is suspended
    nextCall,                  \* the next unused call slot
    overrideUsed,              \* a restart called after the override was stored has slept
                               \* it and returned
    statusOut,                 \* the last value getStatus returned
    cmdIn,                     \* the arguments of the last sendCommand call
    cmdOut,                    \* what that call returned and wrote to stdin
    lastWarn,                  \* the last console.warn of a disconnect/error listener
    lastBlackHoleSpewTime,     \* the module-level let of the same name
    spewLog,                   \* the times chanEventBlackHole logged
    holeRaised                 \* whether chanEventBlackHole has thrown

auxVars == <<cmdIn, cmdOut, lastWarn, lastBlackHoleSpewTime, spewLog, holeRaised>>

vars == <<clock, shutdownNoticeDelayMs, dataPath, cfgPath, fxChild, procs,
          history, lastKillRequest, restartSpawnDelayOverride, currentMutex,
          mutexGen, calls, nextCall, overrideUsed, statusOut, auxVars>>

cfgVars == <<shutdownNoticeDelayMs, dataPath, cfgPath>>

(* ---- messages returned by the operations ---- *)
MsgAlreadyStarted == "The server is already started."
MsgNotConfigured == "Cannot start the server with missing configuration (serverDataPath || cfgPath)."
MsgCfgErrorsHeader == "**Unable to start the server due to error(s) in your config file(s):**\n"
MsgCfgThrewPrefix == "server.cfg error: "
MsgRestartInProgress == "Restart already in progress."
MsgCouldntKill == "Couldn't kill the server. Perhaps What Is Dead May Never Die."
RetNull == "null"
RetPending == "pending"
RetThrow == "throw"

ShuttingDownLine == "txaEvent serverShuttingDown"

Max(a, b) == IF a >= b THEN a ELSE b

\* now() of @lib/misc: the current time in seconds, never 0
now == clock \div 1000

IdleCall == [op |-> "none", pc |-> "idle", ret |-> RetPending, killRet |-> RetPending,
             errors |-> "", noticeAt |-> 0, wake |-> 0, slept |-> 0, usedOverride |-> FALSE,
             setBefore |-> FALSE, afterUsed |-> FALSE]

NewRecord_NoStart(p) == [pid |-> p, start |-> 0, kill |-> 0, exit |-> 0, close |-> 0]

NewRecord(p) == [pid |-> p, start |-> now, kill |-> 0, exit |-> 0, close |-> 0]

NewChild(hasPid, hidx, mutex) ==
    [pid |-> hasPid, exited |-> FALSE, closed |-> FALSE, killedBy |-> <<>>,
     stdin |-> <<>>, hidx |-> hidx, mutex |-> mutex]

\* the state outside the supervisor object when it is constructed
AuxInit ==
    /\ cmdIn = [name |-> <<>>, args |-> <<>>]
    /\ cmdOut = [ret |-> "none", written |-> <<>>]
    /\ lastWarn = "none"
    /\ lastBlackHoleSpewTime = 0
    /\ spewLog = <<>>
    /\ holeRaised = FALSE

Init ==
    /\ clock = StartTime
    /\ shutdownNoticeDelayMs \in ShutdownDelays
    /\ dataPath \in BOOLEAN
    /\ cfgPath \in BOOLEAN
    /\ fxChild = 0
    /\ procs = <<>>
    /\ history = <<>>
    /\ lastKillRequest = 0
    /\ restartSpawnDelayOverride = 0
    /\ currentMutex = 0
    /\ mutexGen = 0
    /\ calls = [c \in Calls |-> IdleCall]
    /\ nextCall = 1
    /\ overrideUsed = FALSE
    /\ statusOut = "none"
    /\ AuxInit

(* ---- time ---- *)
Tick ==
    /\ clock < StartTime + MaxTicks * TickMs
    /\ clock' = clock + TickMs
    /\ UNCHANGED <<cfgVars, fxChild, procs, history, lastKillRequest,
                   restartSpawnDelayOverride, currentMutex, mutexGen, calls,
                   nextCall, overrideUsed, statusOut, auxVars>>

(* ---- bookkeeping of the call slots ---- *)
\* Store the new record of call c; note when a restart that was called with the
\* override stored, and slept it, returns null.
UpdateCall(c, rec) ==
    /\ calls' = [calls EXCEPT ![c] = rec]
    /\ overrideUsed' = (overrideUsed \/ (rec.op = "restartServer" /\ rec.pc = "done"
                                          /\ rec.ret = RetNull
                                          /\ rec.setBefore /\ rec.usedOverride))

(* ---- spawnServer ---- *)
isConfigured_Either == dataPath \/ cfgPath

\* get isConfigured
isConfigured == dataPath /\ cfgPath

AlreadyStarted_Never == FALSE

\* spawnServer: "if the server is already alive"
AlreadyStarted == fxChild # 0

\* what validateFixServerConfig may answer: errors, a thrown error, or neither
ValidatorResults ==
    {[errors |-> e, threw |-> ""] : e \in ErrorTexts \cup {""}}
        \cup {[errors |-> "", threw |-> "unreadable"]}

CfgErrorsMsg_Bare(errors) == errors

\* the message returned when the validator reports errors
CfgErrorsMsg(errors) == MsgCfgErrorsHeader \o errors

\* spawnServer from its entry to the await of the validator
SpawnServerEntry(c, callOp) ==
    LET base == [calls[c] EXCEPT !.op = callOp, !.wake = 0] IN
    IF AlreadyStarted
    THEN /\ UpdateCall(c, [base EXCEPT !.pc = "done", !.ret = MsgAlreadyStarted])
         /\ UNCHANGED <<currentMutex, mutexGen>>
    ELSE /\ mutexGen' = mutexGen + 1
         /\ currentMutex' = mutexGen + 1
         /\ IF isConfigured
            THEN UpdateCall(c, [base EXCEPT !.pc = "validate"])
            ELSE UpdateCall(c, [base EXCEPT !.pc = "done", !.ret = MsgNotConfigured])

\* a caller invokes spawnServer
CallSpawnServer(c) ==
    /\ c = nextCall
    /\ nextCall' = nextCall + 1
    /\ SpawnServerEntry(c, "spawnServer")
    /\ UNCHANGED <<clock, cfgVars, fxChild, procs, history, lastKillRequest,
                   restartSpawnDelayOverride, statusOut, auxVars>>

\* spawnServer from the validator's answer to its return
SpawnValidated(c, result, hasPid) ==
    /\ calls[c].pc = "validate"
    /\ IF result.threw # ""
       THEN /\ UpdateCall(c, [calls[c] EXCEPT !.pc = "done",
                                             !.ret = MsgCfgThrewPrefix \o result.threw])
            /\ UNCHANGED <<fxChild, procs, history>>
       ELSE IF result.errors # ""
       THEN /\ UpdateCall(c, [calls[c] EXCEPT !.pc = "done", !.errors = result.errors,
                                             !.ret = CfgErrorsMsg(result.errors)])
            /\ UNCHANGED <<fxChild, procs, history>>
       ELSE /\ fxChild' = Len(procs) + 1
            /\ IF hasPid
               THEN /\ procs' = Append(procs, NewChild(TRUE, Len(history) + 1, currentMutex))
                    /\ history' = Append(history, NewRecord(Len(procs) + 1))
                    /\ UpdateCall(c, [calls[c] EXCEPT !.pc = "done", !.ret = RetNull])
               ELSE /\ procs' = Append(procs, NewChild(FALSE, 0, 0))
                    /\ UNCHANGED history
                    /\ UpdateCall(c, [calls[c] EXCEPT !.pc = "done", !.ret = RetThrow])
    /\ UNCHANGED <<clock, cfgVars, lastKillRequest, restartSpawnDelayOverride,
                   currentMutex, mutexGen, nextCall, statusOut, auxVars>>

(* ---- killServer and restartServer ---- *)
KillDebounced_Never(ms) == FALSE

\* killServer: "prevent concurrent restart request"
KillDebounced(ms) == ms - lastKillRequest < shutdownNoticeDelayMs

RestartAborts_Never(killError) == FALSE

\* restartServer: if (killError) return killError
RestartAborts(killError) == killError # RetNull

\* restartServer: the delay it sleeps before spawning again
RestartDelay ==
    IF restartSpawnDelayOverride # 0 THEN restartSpawnDelayOverride ELSE restartSpawnDelayMs

\* the caller's record once killServer has returned killError
AfterKill(rec, killError) ==
    IF rec.op = "killServer" \/ RestartAborts(killError)
    THEN [rec EXCEPT !.pc = "done", !.ret = killError, !.killRet = killError,
                     !.noticeAt = 0, !.wake = 0]
    ELSE [rec EXCEPT !.pc = "restartSleep", !.killRet = killError, !.noticeAt = 0,
                     !.slept = RestartDelay,
                     !.usedOverride = (restartSpawnDelayOverride # 0),
                     !.wake = clock + RestartDelay]

\* sendEvent('serverShuttingDown') -> sendCommand -> sendRawCommand
SendShutdownNotice(c) ==
    IF fxChild = 0
    THEN UNCHANGED procs
    ELSE procs' = [procs EXCEPT ![fxChild].stdin =
                        Append(@, [line |-> ShuttingDownLine, by |-> c])]

\* Math.max(txConfig.server.shutdownNoticeDelayMs, 250)
KillWait_NoFloor(ms) == ms

KillWait(ms) == Max(ms, MinKillWaitMs)

\* killServer from its entry to the await of the shutdown-notice sleep
KillServerEntry(c, callOp) ==
    LET base == [calls[c] EXCEPT !.op = callOp, !.afterUsed = overrideUsed,
                                 !.setBefore = (restartSpawnDelayOverride # 0)] IN
    IF KillDebounced(clock)
    THEN /\ UpdateCall(c, AfterKill(base, MsgRestartInProgress))
         /\ UNCHANGED <<lastKillRequest, procs>>
    ELSE /\ lastKillRequest' = clock
         /\ SendShutdownNotice(c)
         /\ UpdateCall(c, [base EXCEPT !.pc = "killSleep", !.noticeAt = clock,
                                       !.wake = clock + KillWait(shutdownNoticeDelayMs)])

\* a caller invokes killServer
CallKillServer(c) ==
    /\ c = nextCall
    /\ nextCall' = nextCall + 1
    /\ KillServerEntry(c, "killServer")
    /\ UNCHANGED <<clock, cfgVars, fxChild, history, restartSpawnDelayOverride,
                   currentMutex, mutexGen, statusOut, auxVars>>

\* a caller invokes restartServer
CallRestartServer(c) ==
    /\ c = nextCall
    /\ nextCall' = nextCall + 1
    /\ KillServerEntry(c, "restartServer")
    /\ UNCHANGED <<clock, cfgVars, fxChild, history, restartSpawnDelayOverride,
                   currentMutex, mutexGen, statusOut, auxVars>>

\* killServer after the shutdown-notice sleep: "stopping server"
KillAfterSleep(c) ==
    /\ calls[c].pc = "killSleep"
    /\ clock >= calls[c].wake
    /\ IF fxChild # 0
       THEN /\ procs' = [procs EXCEPT ![fxChild].killedBy = Append(@, c)]
            /\ fxChild' = 0
            /\ IF history = <<>>
               THEN \* history[-1] is undefined: the TypeError lands in the catch
                    /\ UNCHANGED history
                    /\ UpdateCall(c, AfterKill(calls[c], MsgCouldntKill))
               ELSE /\ history' = [history EXCEPT ![Len(history)].kill = now]
                    /\ UpdateCall(c, AfterKill(calls[c], RetNull))
       ELSE /\ UNCHANGED <<procs, fxChild, history>>
            /\ UpdateCall(c, AfterKill(calls[c], RetNull))
    /\ UNCHANGED <<clock, cfgVars, lastKillRequest, restartSpawnDelayOverride,
                   currentMutex, mutexGen, nextCall, statusOut, auxVars>>

\* restartServer after its delay: return this.spawnServer()
RestartAfterDelay(c) ==
    /\ calls[c].pc = "restartSleep"
    /\ clock >= calls[c].wake
    /\ SpawnServerEntry(c, "restartServer")
    /\ UNCHANGED <<clock, cfgVars, fxChild, procs, history, lastKillRequest,
                   restartSpawnDelayOverride, nextCall, statusOut, auxVars>>

\* an outside caller stores a delay in restartSpawnDelayOverride
SetRestartDelayOverride(v) ==
    /\ restartSpawnDelayOverride = 0
    /\ restartSpawnDelayOverride' = v
    /\ UNCHANGED <<clock, cfgVars, fxChild, procs, history, lastKillRequest,
                   currentMutex, mutexGen, calls, nextCall, overrideUsed, statusOut, auxVars>>

(* ---- events of the child process ---- *)
\* the record a listener writes: history[historyIndex], captured at the spawn
ListenerRecord_Last(p) == Len(history)

ListenerRecord(p) == procs[p].hidx

\* fxChild.on('exit')
OSExit(p) ==
    /\ procs[p].pid
    /\ ~procs[p].exited
    /\ procs' = [procs EXCEPT ![p].exited = TRUE]
    /\ history' = [history EXCEPT ![ListenerRecord(p)].exit = now]
    /\ UNCHANGED <<clock, cfgVars, fxChild, lastKillRequest,
                   restartSpawnDelayOverride, currentMutex, mutexGen, calls,
                   nextCall, overrideUsed, statusOut, auxVars>>

\* fxChild.on('close')
OSClose(p) ==
    /\ procs[p].pid
    /\ procs[p].exited
    /\ ~procs[p].closed
    /\ procs' = [procs EXCEPT ![p].closed = TRUE]
    /\ history' = [history EXCEPT ![ListenerRecord(p)].close = now]
    /\ UNCHANGED <<clock, cfgVars, fxChild, lastKillRequest,
                   restartSpawnDelayOverride, currentMutex, mutexGen, calls,
                   nextCall, overrideUsed, statusOut, auxVars>>

\* fxChild.on('disconnect'): console.warn only
OSDisconnect(p) ==
    /\ procs[p].pid
    /\ lastWarn' = "disconnect"
    /\ UNCHANGED <<clock, cfgVars, fxChild, procs, history, lastKillRequest,
                   restartSpawnDelayOverride, currentMutex, mutexGen, calls,
                   nextCall, overrideUsed, statusOut, cmdIn, cmdOut,
                   lastBlackHoleSpewTime, spewLog, holeRaised>>

\* fxChild.on('error'): console.warn and console.dir only
OSError(p) ==
    /\ procs[p].pid
    /\ lastWarn' = "error"
    /\ UNCHANGED <<clock, cfgVars, fxChild, procs, history, lastKillRequest,
                   restartSpawnDelayOverride, currentMutex, mutexGen, calls,
                   nextCall, overrideUsed, statusOut, cmdIn, cmdOut,
                   lastBlackHoleSpewTime, spewLog, holeRaised>>

Next ==
    \/ Tick
    \/ \E c \in Calls : CallSpawnServer(c)
    \/ \E c \in Calls, r \in ValidatorResults, hasPid \in BOOLEAN : SpawnValidated(c, r, hasPid)
    \/ \E c \in Calls : CallKillServer(c)
    \/ \E c \in Calls : CallRestartServer(c)
    \/ \E c \in Calls : KillAfterSleep(c)
    \/ \E c \in Calls : RestartAfterDelay(c)
    \/ \E v \in OverrideValues : SetRestartDelayOverride(v)
    \/ \E p \in 1..Len(procs) : OSExit(p)
    \/ \E p \in 1..Len(procs) : OSClose(p)

Spec == Init /\ [][Next]_vars

\* the same supervisor with the disconnect and error events of its children;
\* nobody stores a delay override
NextEvents ==
    \/ Tick
    \/ \E c \in Calls : CallSpawnServer(c)
    \/ \E c \in Calls, r \in ValidatorResults, hasPid \in BOOLEAN : SpawnValidated(c, r, hasPid)
    \/ \E c \in Calls : CallKillServer(c)
    \/ \E c \in Calls : CallRestartServer(c)
    \/ \E c \in Calls : KillAfterSleep(c)
    \/ \E c \in Calls : RestartAfterDelay(c)
    \/ \E p \in 1..Len(procs) : OSExit(p)
    \/ \E p \in 1..Len(procs) : OSClose(p)
    \/ \E p \in 1..Len(procs) : OSDisconnect(p)
    \/ \E p \in 1..Len(procs) : OSError(p)

SpecEvents == Init /\ [][NextEvents]_vars

(* ---- the supervisor after its first successful spawn ---- *)
\* spawnServer has run once to its end: one child, one record, the call slots
\* are those of the invocations still to come
InitRunning ==
    /\ clock = StartTime
    /\ shutdownNoticeDelayMs \in ShutdownDelays
    /\ dataPath = TRUE
    /\ cfgPath = TRUE
    /\ fxChild = 1
    /\ procs = <<NewChild(TRUE, 1, 1)>>
    /\ history = <<NewRecord(1)>>
    /\ lastKillRequest = 0
    /\ restartSpawnDelayOverride = 0
    /\ currentMutex = 1
    /\ mutexGen = 1
    /\ calls = [c \in Calls |-> IdleCall]
    /\ nextCall = 1
    /\ overrideUsed = FALSE
    /\ statusOut = "none"
    /\ AuxInit

SpecRunning == InitRunning /\ [][Next]_vars

(* ---- chanEventBlackHole ---- *)
blackHoleSpillMaxInterval == 5000
MaxSpews == 2                    \* diagnostic logs kept in spewLog

\* the listeners of lines 296-301: stream and event
BlackHoleEvents == {"stdin error", "stdin data", "stdout error", "stderr error",
                    "stdio[3] error"}

\* One event reaches chanEventBlackHole.  The handler never assigns
\* lastBlackHoleSpewTime; it assigns the undeclared lastLogTime, which throws a
\* ReferenceError where the bundle runs the module in strict mode and creates a
\* global where it does not.
ChanEvent(p, event, strict) ==
    /\ procs[p].pid
    /\ Len(spewLog) < MaxSpews
    /\ LET currentTime == clock IN
       IF currentTime - lastBlackHoleSpewTime > blackHoleSpillMaxInterval
       THEN /\ spewLog' = Append(spewLog, [at |-> currentTime, event |-> event])
            /\ holeRaised' = (holeRaised \/ strict)
       ELSE UNCHANGED <<spewLog, holeRaised>>
    /\ UNCHANGED <<clock, cfgVars, fxChild, procs, history, lastKillRequest,
                   restartSpawnDelayOverride, currentMutex, mutexGen, calls,
                   nextCall, overrideUsed, statusOut, cmdIn, cmdOut, lastWarn,
                   lastBlackHoleSpewTime>>

NextBlackHole ==
    \/ Tick
    \/ \E p \in 1..Len(procs), e \in BlackHoleEvents, strict \in BOOLEAN : ChanEvent(p, e, strict)

\* the streams of the first child emit events while time passes
SpecBlackHole == InitRunning /\ [][NextBlackHole]_vars

(* ---- getStatus ---- *)
TimestampKeys == <<"start", "kill", "exit", "close">>

PendingKeys_Set(ts) == SelectSeq(TimestampKeys, LAMBDA k : ts[k] # 0)

\* Object.keys(timestamps).filter((k) => !curr.timestamps[k])
PendingKeys(ts) == SelectSeq(TimestampKeys, LAMBDA k : ts[k] = 0)

RECURSIVE Join(_)
\* pending.join(', ')
Join(seq) ==
    IF seq = <<>> THEN ""
    ELSE IF Len(seq) = 1 THEN seq[1]
    ELSE seq[1] \o ", " \o Join(Tail(seq))

StatusThrow == "throw: This should NOT happen."

getStatus(h) ==
    IF Len(h) = 0 THEN "not started"
    ELSE LET curr == h[Len(h)] IN
         IF curr.start = 0 /\ Len(h) = 1 THEN StatusThrow
         ELSE IF curr.start = 0
         THEN \* the keys are those of the older record, the test reads curr
              LET pending == PendingKeys(curr) IN
              IF pending = <<>> THEN "spawn ready"
              ELSE "spawn awaiting last: " \o Join(pending)
         ELSE IF curr.kill # 0
         THEN LET pending == PendingKeys(curr) IN
              IF pending # <<>> THEN "kill pending: " \o Join(pending)
              ELSE "killed"
         ELSE IF curr.exit # 0 /\ curr.close = 0 THEN "closing"
         ELSE IF curr.exit # 0 /\ curr.close # 0 THEN "closed"
         ELSE "spawned"

\* a caller reads the status
GetStatusCall ==
    /\ statusOut' = getStatus(history)
    /\ UNCHANGED <<clock, cfgVars, fxChild, procs, history, lastKillRequest,
                   restartSpawnDelayOverride, currentMutex, mutexGen, calls,
                   nextCall, overrideUsed, auxVars>>

(* getStatus over every History of up to MaxHistory records *)
MaxHistory == 2
TimestampValues == {0, 100, 101}

Records ==
    [pid : {1}, start : TimestampValues, kill : TimestampValues,
     exit : TimestampValues, close : TimestampValues]

Histories == UNION {[1..n -> Records] : n \in 0..MaxHistory}

InitStatus ==
    /\ clock = StartTime
    /\ shutdownNoticeDelayMs = 0
    /\ dataPath = TRUE
    /\ cfgPath = TRUE
    /\ fxChild = 0
    /\ procs = <<>>
    /\ history \in Histories
    /\ lastKillRequest = 0
    /\ restartSpawnDelayOverride = 0
    /\ currentMutex = 0
    /\ mutexGen = 0
    /\ calls = [c \in Calls |-> IdleCall]
    /\ nextCall = 1
    /\ overrideUsed = FALSE
    /\ statusOut = "none"
    /\ AuxInit

NextStatus == GetStatusCall

SpecStatus == InitStatus /\ [][NextStatus]_vars

(* ---- sendCommand / sendRawCommand ---- *)
\* A JavaScript string is a sequence of characters, each a one-element string.
DQuote == "\""
Newline == "\n"
Backslash == "\\"
FullwidthQuote == "U+FF02"       \* the single character '＂'
WordChars == {"a", "_", "1"}     \* a sample of the class \w
Chars == {"a", " ", DQuote, Newline}
StringLengths == {0, 1, 2}
Strings == UNION {[1..n -> Chars] : n \in StringLengths}

MaxArgs == 2                     \* the longest cmdArgs array

\* JavaScript values passed as cmdName or as one element of cmdArgs
StrVal(s) == [kind |-> "string", str |-> s, num |-> 0, obj |-> <<>>]
IntVal(n) == [kind |-> "integer", str |-> <<>>, num |-> n, obj |-> <<>>]
ObjVal(e) == [kind |-> "object", str |-> <<>>, num |-> 0, obj |-> e]
OtherVal(k) == [kind |-> k, str |-> <<>>, num |-> 0, obj |-> <<>>]

IntArgs == {-1, 0, 12}
ObjStrings == {<<>>, <<"a">>, <<" ">>, <<DQuote>>, <<Newline>>}
ObjEntries == [key : {<<"a">>}, value : ObjStrings]
ObjArgs == {<<>>} \cup {<<e>> : e \in ObjEntries}
               \cup {<<[key |-> <<"a">>, value |-> <<DQuote>>], [key |-> <<"a", "a">>, value |-> <<Newline>>]>>}
\* typeof 'number' but not an integer, null, typeof 'boolean', typeof 'undefined'
OtherKinds == {"float", "null", "boolean", "undefined"}

ArgValues == {StrVal(s) : s \in Strings} \cup {IntVal(n) : n \in IntArgs}
                 \cup {ObjVal(e) : e \in ObjArgs} \cup {OtherVal(k) : k \in OtherKinds}
NameValues == {StrVal(s) : s \in Strings \cup {<<"a", "_", "1">>}} \cup {OtherVal("undefined")}
NotArray == <<OtherVal("notArray")>>
ArgArrays == UNION {[1..n -> ArgValues] : n \in 0..MaxArgs}

\* /^\w+$/.test(x)
IsWord(x) == Len(x) > 0 /\ \A i \in 1..Len(x) : x[i] \in WordChars

\* x.replaceAll(/"/g, '＂').replaceAll(/\n/g, ' ')
sanitizeArgString_KeepQuotes(x) ==
    [i \in 1..Len(x) |-> IF x[i] = Newline THEN " " ELSE x[i]]

sanitizeArgString(x) ==
    [i \in 1..Len(x) |-> IF x[i] = DQuote THEN FullwidthQuote
                         ELSE IF x[i] = Newline THEN " " ELSE x[i]]

\* JSON.stringify of a string: quoted, with '"', '\' and newline escaped
RECURSIVE JsonEscape(_)
JsonEscape(s) ==
    IF s = <<>> THEN <<>>
    ELSE (IF Head(s) = DQuote THEN <<Backslash, DQuote>>
          ELSE IF Head(s) = Backslash THEN <<Backslash, Backslash>>
          ELSE IF Head(s) = Newline THEN <<Backslash, "n">>
          ELSE <<Head(s)>>) \o JsonEscape(Tail(s))

JsonString(s) == <<DQuote>> \o JsonEscape(s) \o <<DQuote>>

\* JSON.stringify of an object whose values are strings
RECURSIVE JsonMembers(_)
JsonMembers(e) ==
    IF e = <<>> THEN <<>>
    ELSE JsonString(Head(e).key) \o <<":">> \o JsonString(Head(e).value)
         \o (IF Len(e) > 1 THEN <<",">> ELSE <<>>) \o JsonMembers(Tail(e))

JsonStringify(e) == <<"{">> \o JsonMembers(e) \o <<"}">>

\* `${arg}` of an integer
DigitChars == <<"0", "1", "2", "3", "4", "5", "6", "7", "8", "9">>

RECURSIVE Digits(_)
Digits(n) ==
    IF n < 10 THEN <<DigitChars[n + 1]>>
    ELSE Digits(n \div 10) \o <<DigitChars[(n % 10) + 1]>>

IntToString(n) == IF n < 0 THEN <<"-">> \o Digits(0 - n) ELSE Digits(n)

\* the branches of the loop over cmdArgs that do not throw
ArgAccepted(arg) == arg.kind \in {"string", "object", "integer"}

\* what one accepted argument adds to rawInput
EncodeArg(arg) ==
    IF arg.kind = "string"
    THEN IF Len(arg.str) = 0 THEN <<" ", DQuote, DQuote>>
         ELSE IF IsWord(arg.str) THEN <<" ">> \o arg.str
         ELSE <<" ", DQuote>> \o sanitizeArgString(arg.str) \o <<DQuote>>
    ELSE IF arg.kind = "object"
    THEN <<" ", DQuote>> \o sanitizeArgString(JsonStringify(arg.obj)) \o <<DQuote>>
    ELSE <<" ">> \o IntToString(arg.num)

RECURSIVE EncodeArgs(_)
EncodeArgs(args) ==
    IF args = <<>> THEN <<>> ELSE EncodeArg(Head(args)) \o EncodeArgs(Tail(args))

CmdThrow == [ret |-> RetThrow, raw |-> <<>>]

\* sendCommand up to its call of sendRawCommand: the value it returns without
\* writing, or "send" with the line it hands to sendRawCommand
sendCommand(child, cmdName, cmdArgs) ==
    IF child = 0 THEN [ret |-> "false", raw |-> <<>>]
    ELSE IF cmdName.kind # "string" \/ Len(cmdName.str) = 0 THEN CmdThrow
    ELSE IF cmdArgs = NotArray THEN CmdThrow
    ELSE IF ~IsWord(cmdName.str) THEN CmdThrow
    ELSE IF \E i \in 1..Len(cmdArgs) : ~ArgAccepted(cmdArgs[i]) THEN CmdThrow
    ELSE [ret |-> "send", raw |-> sanitizeArgString(cmdName.str) \o EncodeArgs(cmdArgs)]

\* stdin.write returns true, returns false (buffer above the high-water mark,
\* the data is still queued), or throws
WriteOutcomes == {"true", "false", "error"}

\* one call sendCommand(cmdName, cmdArgs) and, through it, sendRawCommand
SendCommandCall ==
    /\ cmdOut.ret = "none"
    /\ LET r == sendCommand(fxChild, cmdIn.name, cmdIn.args) IN
       IF r.ret # "send"
       THEN /\ cmdOut' = [ret |-> r.ret, written |-> <<>>]
            /\ procs' = procs
       ELSE \E w \in WriteOutcomes :
              IF w = "error"
              THEN /\ cmdOut' = [ret |-> "false", written |-> <<>>]
                   /\ procs' = procs
              ELSE /\ cmdOut' = [ret |-> w, written |-> r.raw \o <<Newline>>]
                   /\ procs' = [procs EXCEPT ![fxChild].stdin =
                                    Append(@, [line |-> r.raw, by |-> 0])]
    /\ UNCHANGED <<clock, cfgVars, fxChild, history, lastKillRequest,
                   restartSpawnDelayOverride, currentMutex, mutexGen, calls,
                   nextCall, overrideUsed, statusOut, cmdIn, lastWarn,
                   lastBlackHoleSpewTime, spewLog, holeRaised>>

\* the supervisor before any spawn, or with the child of one successful spawn,
\* and the arguments of the sendCommand call to come
InitCommand ==
    /\ clock = StartTime
    /\ shutdownNoticeDelayMs = 0
    /\ dataPath = TRUE
    /\ cfgPath = TRUE
    /\ \/ /\ fxChild = 0
          /\ procs = <<>>
          /\ history = <<>>
          /\ currentMutex = 0
          /\ mutexGen = 0
       \/ /\ fxChild = 1
          /\ procs = <<NewChild(TRUE, 1, 1)>>
          /\ history = <<NewRecord(1)>>
          /\ currentMutex = 1
          /\ mutexGen = 1
    /\ lastKillRequest = 0
    /\ restartSpawnDelayOverride = 0
    /\ calls = [c \in Calls |-> IdleCall]
    /\ nextCall = 1
    /\ overrideUsed = FALSE
    /\ statusOut = "none"
    /\ cmdIn \in [name : NameValues, args : ArgArrays \cup {NotArray}]
    /\ cmdOut = [ret |-> "none", written |-> <<>>]
    /\ lastWarn = "none"
    /\ lastBlackHoleSpewTime = 0
    /\ spewLog = <<>>
    /\ holeRaised = FALSE

NextCommand == SendCommandCall

SpecCommand == InitCommand /\ [][NextCommand]_vars

(* ---- the claims ---- *)
LiveProcs == {p \in 1..Len(procs) : procs[p].pid /\ ~procs[p].exited}

InSeq(x, seq) == \E i \in 1..Len(seq) : seq[i] = x

\* C1: at most one created child process whose exit the OS has not reported.
C1_AtMostOneLiveChild == Cardinality(LiveProcs) <= 1

\* C2: whenever a kill sequence signals a child process, that same sequence wrote
\* its serverShuttingDown line to that child's stdin before.
C2_NoticeBeforeSignal ==
    [][\A p \in 1..Len(procs) : \A c \in Calls :
          (procs[p].pid /\ InSeq(c, procs'[p].killedBy) /\ ~InSeq(c, procs[p].killedBy))
              => InSeq([line |-> ShuttingDownLine, by |-> c], procs[p].stdin)]_vars

\* C3: a killServer call made less than the shutdown-notice delay after the last
\* accepted kill request returns the rejection and changes neither the child handle,
\* History, the last-kill-request time, any child's stdin nor the signals sent.
C3_DebouncedKillHasNoEffect ==
    [][\A c \in Calls :
          (/\ calls[c].pc = "idle"
           /\ calls'[c].op \in {"killServer", "restartServer"}
           /\ lastKillRequest # 0
           /\ clock - lastKillRequest < shutdownNoticeDelayMs)
              => (/\ calls'[c].killRet = MsgRestartInProgress
                  /\ UNCHANGED <<fxChild, history, lastKillRequest, procs>>)]_vars

C3_Witness ==
    \E c, d \in Calls :
        /\ calls[c].killRet = MsgRestartInProgress
        /\ calls[d].pc = "killSleep"

\* C4: two killServer invocations are never both suspended in the shutdown-notice
\* sleep.
C4_KillSequencesNeverInterleave ==
    Cardinality({c \in Calls : calls[c].pc = "killSleep"}) <= 1

\* C5: a restartServer whose killServer step returned an error has returned that
\* same value, slept no restart delay, and the step in which killServer returned
\* created no process and appended no History record.
C5_RestartStopsOnKillError ==
    [][\A c \in Calls :
          (calls'[c].op = "restartServer" /\ calls'[c].killRet \notin {RetPending, RetNull})
              => (/\ calls'[c].pc = "done"
                  /\ calls'[c].ret = calls'[c].killRet
                  /\ calls'[c].slept = 0
                  /\ calls[c].killRet = RetPending
                        => Len(procs') = Len(procs) /\ Len(history') = Len(history))]_vars

C5_Witness ==
    \E c \in Calls :
        /\ calls[c].op = "restartServer"
        /\ calls[c].pc = "done"
        /\ calls[c].ret = MsgCouldntKill

\* a step in which call c runs spawnServer's entry, called directly or by restartServer
SpawnEntryStep(c) ==
    \/ calls[c].pc = "idle" /\ calls'[c].op = "spawnServer"
    \/ calls[c].pc = "restartSleep" /\ calls'[c].pc # "restartSleep"

\* C6: spawnServer called while a child handle is present returns the 'already
\* started' error and leaves History, the handle, the session identifier and the
\* processes as they were.
C6_SpawnWhileStarted ==
    [][\A c \in Calls :
          (SpawnEntryStep(c) /\ fxChild # 0)
              => (/\ calls'[c].pc = "done"
                  /\ calls'[c].ret = MsgAlreadyStarted
                  /\ UNCHANGED <<history, fxChild, currentMutex, procs>>)]_vars

C6_Witness == \E c \in Calls : calls[c].ret = MsgAlreadyStarted /\ fxChild # 0

\* C7: with the data directory or the config file path missing, spawnServer returns
\* the not-configured error without invoking the validator; no process is created,
\* the child handle stays absent and History is unchanged.
C7_SpawnNotConfigured ==
    [][\A c \in Calls :
          (SpawnEntryStep(c) /\ (~dataPath \/ ~cfgPath))
              => (/\ calls'[c].pc = "done"
                  /\ calls'[c].ret = MsgNotConfigured
                  /\ fxChild' = 0
                  /\ UNCHANGED <<history, procs>>)]_vars

C7_Witness == \E c \in Calls : calls[c].ret = MsgNotConfigured

\* C8 as stated: when the validator reports errors, spawnServer creates no process,
\* leaves the handle absent and History unchanged, and returns the validator's text
\* itself.
C8_ReturnsValidatorTextUnmodified ==
    [][\A c \in Calls :
          (calls[c].pc = "validate" /\ calls'[c].errors # "")
              => (/\ calls'[c].ret = calls'[c].errors
                  /\ fxChild' = 0
                  /\ UNCHANGED <<history, procs>>)]_vars

\* C8 amended: when the validator reports errors, spawnServer creates no process,
\* leaves the handle and History as they were, and returns the fixed header line
\* followed by the validator's text.
C8_ReturnsHeaderAndValidatorText ==
    [][\A c \in Calls :
          (calls[c].pc = "validate" /\ calls'[c].errors # "")
              => (/\ calls'[c].pc = "done"
                  /\ calls'[c].ret = MsgCfgErrorsHeader \o calls'[c].errors
                  /\ UNCHANGED <<fxChild, history, procs>>)]_vars

C8_Witness == \E c \in Calls : calls[c].errors = "E2" /\ calls[c].pc = "done"

\* C9: once the override is stored and a restart called after that has slept it and
\* returned, a restart called later, the override not having been stored again,
\* sleeps the configured restart-spawn delay.
C9_OverrideConsumedByOneRestart ==
    \A c \in Calls :
        (calls[c].op = "restartServer" /\ calls[c].afterUsed /\ calls[c].killRet = RetNull)
            => calls[c].slept = restartSpawnDelayMs

\* C10: when the last record has start set, or History is empty, getStatus is the
\* reference projection of the last record.
C10_StatusProjection ==
    statusOut # "none" =>
        IF history = <<>> THEN statusOut = "not started"
        ELSE LET r == history[Len(history)] IN
             r.start # 0 =>
                 statusOut =
                     CASE r.kill # 0 /\ r.exit = 0 /\ r.close = 0 -> "kill pending: exit, close"
                       [] r.kill # 0 /\ r.exit = 0 /\ r.close # 0 -> "kill pending: exit"
                       [] r.kill # 0 /\ r.exit # 0 /\ r.close = 0 -> "kill pending: close"
                       [] r.kill # 0 /\ r.exit # 0 /\ r.close # 0 -> "killed"
                       [] r.kill = 0 /\ r.exit # 0 /\ r.close = 0 -> "closing"
                       [] r.kill = 0 /\ r.exit # 0 /\ r.close # 0 -> "closed"
                       [] OTHER -> "spawned"

C10_Witness ==
    /\ statusOut = "kill pending: close"
    /\ Len(history) = 2
    /\ history[2].start # 0

(* ---- sendCommand: the claims ---- *)
CmdNameValid(v) == v.kind = "string" /\ IsWord(v.str)

CmdArgRejected(a) == a # NotArray /\ \E i \in 1..Len(a) : ~ArgAccepted(a[i])

\* C11: in every supervisor state, with or without a child handle, a
\* sendCommand call whose command name is empty or has a non-word character, or
\* one of whose arguments is not a string, an object or an integer, raises; it
\* returns a boolean only when the input is valid.
C11_InvalidInputAlwaysRaises ==
    cmdOut.ret # "none" /\ (~CmdNameValid(cmdIn.name) \/ CmdArgRejected(cmdIn.args))
        => cmdOut.ret = RetThrow

\* the line tokenizer: tokens are separated by spaces, a token that starts with
\* '"' runs to the next '"', which a space or the end of the line follows; the
\* result is the number of tokens from position i on, or -1 when a '"' is not
\* such a delimiter
RECURSIVE CountTokens(_, _, _, _)
CountTokens(s, i, mode, n) ==
    IF i > Len(s) THEN (IF mode = "quoted" THEN -1 ELSE n)
    ELSE IF mode = "gap"
    THEN IF s[i] = " " THEN CountTokens(s, i + 1, "gap", n)
         ELSE IF s[i] = DQuote THEN CountTokens(s, i + 1, "quoted", n + 1)
         ELSE CountTokens(s, i + 1, "word", n + 1)
    ELSE IF mode = "word"
    THEN IF s[i] = " " THEN CountTokens(s, i + 1, "gap", n)
         ELSE IF s[i] = DQuote THEN -1
         ELSE CountTokens(s, i + 1, "word", n)
    ELSE IF s[i] = DQuote
    THEN IF i = Len(s) \/ s[i + 1] = " " THEN CountTokens(s, i + 1, "gap", n)
         ELSE -1
    ELSE CountTokens(s, i + 1, "quoted", n)

RECURSIVE CountChar(_, _)
CountChar(ch, s) ==
    IF s = <<>> THEN 0
    ELSE (IF Head(s) = ch THEN 1 ELSE 0) + CountChar(ch, Tail(s))

RECURSIVE CountCharInStrings(_, _)
CountCharInStrings(ch, a) ==
    IF a = <<>> THEN 0 ELSE CountChar(ch, Head(a).str) + CountCharInStrings(ch, Tail(a))

\* C12: what one sendCommand call writes is one line ended by the only newline
\* written; every '"' of the line delimits a quoted argument, the line has as
\* many tokens as the call has arguments plus one, and the '"' characters of
\* the string arguments appear in it as U+FF02.
C12_OneLineOneTokenPerArgument ==
    cmdOut.written # <<>> =>
        LET line == SubSeq(cmdOut.written, 1, Len(cmdOut.written) - 1) IN
        /\ cmdOut.written[Len(cmdOut.written)] = Newline
        /\ CountChar(Newline, line) = 0
        /\ CountTokens(line, 1, "gap", 0) = Len(cmdIn.args) + 1
        /\ (\A i \in 1..Len(cmdIn.args) : cmdIn.args[i].kind # "object")
              => CountChar(FullwidthQuote, line) = CountCharInStrings(DQuote, cmdIn.args)

C12_Witness ==
    /\ cmdOut.ret = "true"
    /\ cmdIn.name = StrVal(<<"a">>)
    /\ cmdIn.args = <<StrVal(<<"a", DQuote>>), StrVal(<<Newline, "a">>)>>
    /\ cmdOut.written = <<"a", " ", DQuote, "a", FullwidthQuote, DQuote, " ",
                          DQuote, " ", "a", DQuote, Newline>>

(* ---- the Lifecycle Records: the claims ---- *)
StampKeys == {"kill", "exit", "close"}

\* C13: no step removes a record or changes its start, and a kill, exit or
\* close timestamp that is set keeps its value in every later state.
C13_TimestampsWriteOnce ==
    [][\A i \in 1..Len(history) :
          /\ i <= Len(history')
          /\ history'[i].start = history[i].start
          /\ \A k \in StampKeys : history[i][k] # 0 => history'[i][k] = history[i][k]]_vars

\* C14: no step stamps kill on a record whose exit or close timestamp is
\* already set.
C14_KillNeverStampedAfterExit ==
    [][\A i \in 1..Len(history) :
          (history[i].exit # 0 \/ history[i].close # 0) /\ i <= Len(history')
              => history'[i].kill = history[i].kill]_vars

\* the record appended for child p
RecordsOf(p) == {i \in 1..Len(history) : history[i].pid = p}

\* record i is as it was, but for field k, which is now set
OnlyStamped(i, k) ==
    /\ history'[i][k] # 0
    /\ history' = [history EXCEPT ![i][k] = history'[i][k]]

\* C15: the step that delivers the exit (close) event of a child sets the exit
\* (close) field of the record appended for that child and changes no other
\* field, no other record, not the child handle and not the session identifier;
\* a step that delivers a disconnect or error event changes no supervisor state.
C15_StaleEventsTouchOnlyTheirRecord ==
    [][/\ \A p \in 1..Len(procs) :
            /\ ~procs[p].exited /\ procs'[p].exited
                  => /\ \E i \in RecordsOf(p) : OnlyStamped(i, "exit")
                     /\ UNCHANGED <<fxChild, currentMutex>>
            /\ ~procs[p].closed /\ procs'[p].closed
                  => /\ \E i \in RecordsOf(p) : OnlyStamped(i, "close")
                     /\ UNCHANGED <<fxChild, currentMutex>>
       /\ lastWarn' # lastWarn
            => UNCHANGED <<fxChild, history, currentMutex, lastKillRequest,
                           restartSpawnDelayOverride, procs, calls>>]_vars

\* an exit event was delivered for an older child in a later second than the
\* start of a newer record, and a disconnect or error event was delivered
C15_Witness ==
    /\ lastWarn # "none"
    /\ \E i \in 1..Len(history) : \E j \in (i + 1)..Len(history) :
          history[i].exit > history[j].start /\ history[j].exit = 0

(* ---- getStatus: the claims ---- *)
AbsentKeys(ts) == SelectSeq(TimestampKeys, LAMBDA k : ts[k] = 0)

RestartAppends(c) ==
    /\ calls[c].op = "restartServer"
    /\ calls[c].pc = "validate"
    /\ calls'[c].pc = "done"
    /\ Len(history') = Len(history) + 1

\* C17: when a restartServer appends the record of the new instance, the
\* previous record has its kill, exit and close timestamps set (its status is
\* 'killed').
C17_RestartAppendsOnlyAfterKilled ==
    [][\A c \in Calls :
          RestartAppends(c) /\ history # <<>>
              => LET prev == history[Len(history)] IN
                 prev.kill # 0 /\ prev.exit # 0 /\ prev.close # 0]_vars

(* ---- the session identifier: the claims ---- *)
\* the children for which a record was appended and the fd3 listener bound
Instances == {p \in 1..Len(procs) : procs[p].pid}

\* C18: the session identifiers bound to the out-of-band listeners (and sent
\* with the player-list reset) of two distinct records are distinct.
C18_SessionIdsDistinctPerRecord ==
    \A p, q \in Instances : p # q => procs[p].mutex # procs[q].mutex

(* ---- the shutdown-notice sleep: the claims ---- *)
\* call c signals child p in this step
Signals(c, p) == InSeq(c, procs'[p].killedBy) /\ ~InSeq(c, procs[p].killedBy)

\* C19: a kill sequence signals a child no earlier than
\* max(shutdown-notice delay, 250 ms) after it sent its shutdown notice.
C19_SignalAfterNoticeWindow ==
    [][\A c \in Calls : \A p \in 1..Len(procs) :
          Signals(c, p)
              => clock - calls[c].noticeAt >=
                    (IF shutdownNoticeDelayMs >= 250 THEN shutdownNoticeDelayMs ELSE 250)]_vars

\* with a delay of 0, a killServer has signalled the child that received its
\* notice, one clock step after the notice
C19_Witness ==
    /\ shutdownNoticeDelayMs = 0
    /\ clock - lastKillRequest = TickMs
    /\ \E c \in Calls : \E p \in 1..Len(procs) :
          /\ calls[c].op = "killServer"
          /\ calls[c].ret = RetNull
          /\ InSeq(c, procs[p].killedBy)
          /\ InSeq([line |-> ShuttingDownLine, by |-> c], procs[p].stdin)

(* ---- chanEventBlackHole: the claims ---- *)
\* C20: any two diagnostic logs of discarded stdio events are at least 5
\* seconds apart, and the handler has never raised.
C20_RateLimitedAndNeverRaises ==
    /\ ~holeRaised
    /\ \A i, j \in 1..Len(spewLog) : i < j => spewLog[j].at - spewLog[i].at >= 5000

(* ---- the child handle: the claims ---- *)
\* C21: whenever the child handle is present, the OS has not reported the exit
\* of the process it refers to.
C21_HandleNeverRefersToExitedProcess ==
    fxChild # 0 => ~procs[fxChild].exited

\* C22: whenever the child handle is present, History is non-empty and its
\* last record is the record of the process the handle refers to, with kill
\* absent.
C22_HandleMatchesLastRecord ==
    fxChild # 0 =>
        /\ history # <<>>
        /\ history[Len(history)].pid = fxChild
        /\ history[Len(history)].kill = 0

\* C23: every created process whose exit has not been reported is referenced
\* by the child handle or has been sent a termination signal.
C23_NoOrphanedLiveProcess ==
    \A p \in 1..Len(procs) :
        procs[p].pid /\ ~procs[p].exited => fxChild = p \/ procs[p].killedBy # <<>>

(* ---- reachable status labels: the claims ---- *)
StartedLabels ==
    {"not started", "spawned", "killed", "closing", "closed",
     "kill pending: exit, close", "kill pending: exit", "kill pending: close"}

\* C24: every record of History has start set, and getStatus of History is one
\* of not started, spawned, kill pending, killed, closing and closed (never
\* 'spawn ready', 'spawn awaiting last' or the 'This should NOT happen' error).
C24_OnlyStartedLabels ==
    /\ \A i \in 1..Len(history) : history[i].start # 0
    /\ getStatus(history) \in StartedLabels

\* a restart has appended a second record and the second child has exited
C24_Witness ==
    /\ Len(history) = 2
    /\ history[1].kill # 0
    /\ getStatus(history) = "closing"

====
